---- MODULE Spec2Model ----
(***************************************************************************)
(* A model of backend_scheduler.py: the portfolio ledger (Portfolio), the  *)
(* schedule calculator (get_next_run), the per-ticker job lifecycle        *)
(* (run_once) and the main loop (main).                                    *)
(*                                                                         *)
(* Units.  The clock counts ticks; a day has DayLen ticks and day 0 is a   *)
(* Monday.  The sleeps of the program last SleepSecs and PollInterval      *)
(* ticks: the day is shortened, but stays several sleeps long.  Money is  *)
(* counted in mills (1/1000 of the currency unit), so                      *)
(* that round(x, 2) is a real conversion; a position's value is in cents.  *)
(* Quantities of a decision payload are counted in tenths of a share, so   *)
(* that int(quantity) truncates.                                           *)
(***************************************************************************)
EXTENDS Integers, Sequences, FiniteSets, TLC

VARIABLES
    cash,        \* Portfolio.cash, in mills
    positions,   \* Portfolio.positions: ticker -> [shares, value]
    file,        \* the persisted ledger: [exists, fields, cash, positions]
    pc,          \* the control point of the process
    idx,         \* run_once: index of the ticker being processed
    price,       \* run_once: the price obtained for the current ticker
    run_id,      \* run_once: the job id returned for the current ticker
    clock,       \* wall clock, in ticks
    now,         \* main: the instant read at line 215
    next_run,    \* main: the next eligible instant
    run_times,   \* main: the sorted time-of-day marks
    env,         \* what the remote service and the price source may answer
    last,        \* history: the last ledger call or job result of the pass
    bought,      \* history: per ticker, the sum of bought quantities
    sold,        \* history: per ticker, the sum of sold quantities
    net,         \* history: per ticker, the running total reset by oversell
    spent,       \* history: sum of quantity*price over all buys
    earned,      \* history: sum of quantity*price over all sells
    steps,       \* history: number of ledger calls / passes started
    saves,       \* history: number of save() calls executed
    job,         \* history: the job of the ticker being processed
    done,        \* history: the outcome of each ticker finished in this pass
    failure,     \* history: the call whose exception ended the process
    passes       \* history: per pass started, its trigger, instant and file

vars == <<cash, positions, file, pc, idx, price, run_id, clock, now, next_run,
          run_times, env, last, bought, sold, net, spent, earned, steps, saves, job,
          done, failure, passes>>

ledgerVars == <<cash, positions>>
histVars == <<last, bought, sold, net, spent, earned>>
passVars == <<idx, price, run_id, job, done, failure>>
config == <<run_times, env>>
schedVars == <<clock, now, next_run, config>>

-----------------------------------------------------------------------------
(* Bounds and inputs *)

MaxSteps == 3
MaxQty == 2
MaxMarks == 2
HorizonDays == 8
TicksPerHour == 10

DefaultCash == 2000

Tickers == <<"AAPL", "MSFT">>
TickerSet == {Tickers[i] : i \in 1..Len(Tickers)}

\* get_latest_price: 0 stands for a failed fetch; 1004 mills is 1.004
Prices == {0, 1004}

Actions == {"buy", "sell", "hold", "none"}

\* A decision's "quantity" entry: absent, a number (in tenths), or not a number.
QtyPayloads ==
    {[kind |-> "missing", v |-> 0], [kind |-> "bad", v |-> 0]}
    \cup {[kind |-> "num", v |-> 10 * q] : q \in 0..MaxQty}
    \cup {[kind |-> "num", v |-> 10 * q + 5] : q \in 0..(MaxQty - 1)}

Decisions == [action : Actions, quantity : QtyPayloads]

-----------------------------------------------------------------------------
(* Portfolio *)

EmptyPositions == [t \in {} |-> [shares |-> 0, value |-> 0]]

Held(pos, ticker) == ticker \in DOMAIN pos

SharesOf(pos, ticker) == IF Held(pos, ticker) THEN pos[ticker].shares ELSE 0

Put(pos, ticker, rec) ==
    [t \in (DOMAIN pos) \cup {ticker} |-> IF t = ticker THEN rec ELSE pos[t]]

Pop(pos, ticker) == [t \in (DOMAIN pos) \ {ticker} |-> pos[t]]

\* round(x, 2) of an amount of m mills, in cents: to nearest, ties to even.
Round2(m) ==
    LET q == m \div 10
        r == m % 10
    IN  IF r < 5 THEN q
        ELSE IF r > 5 THEN q + 1
        ELSE IF q % 2 = 0 THEN q ELSE q + 1

\* int(decision.get("quantity", 0)) succeeds
IntOk(quantity) == quantity.kind # "bad"

\* int(decision.get("quantity", 0)): truncation toward zero
IntOf(quantity) ==
    IF quantity.kind = "missing" THEN 0
    ELSE IF quantity.v >= 0 THEN quantity.v \div 10
    ELSE -((-quantity.v) \div 10)

\* line 54: self.cash -= qty * price
BuyCash(c, qty, p) == c - qty * p

\* the sell branch crediting only the shares actually held
SellCashHeldOnly(c, shares, qty, p) ==
    c + (IF qty > shares THEN shares ELSE qty) * p

\* line 57: self.cash += qty * price
SellCash(c, shares, qty, p) == c + qty * p

\* the sell branch carrying an oversold (negative) position forward
RemoveAfterSellNever(shares) == FALSE

\* line 58: if shares <= 0
RemoveAfterSell(shares) == shares <= 0

\* Portfolio.apply_decision; raised = TRUE when int() raises, before any change
ApplyDecision(c, pos, ticker, decision, p) ==
    IF ~IntOk(decision.quantity)
    THEN [cash |-> c, positions |-> pos, raised |-> TRUE]
    ELSE
      LET qty == IntOf(decision.quantity)
          pos1 == IF Held(pos, ticker) THEN pos
                  ELSE Put(pos, ticker, [shares |-> 0, value |-> 0])
          shares == pos1[ticker].shares
      IN  IF decision.action = "buy"
          THEN [cash |-> BuyCash(c, qty, p),
                positions |-> Put(pos1, ticker,
                    [shares |-> shares + qty, value |-> Round2((shares + qty) * p)]),
                raised |-> FALSE]
          ELSE IF decision.action = "sell"
          THEN IF RemoveAfterSell(shares - qty)
               THEN [cash |-> SellCash(c, shares, qty, p),
                     positions |-> Pop(pos1, ticker), raised |-> FALSE]
               ELSE [cash |-> SellCash(c, shares, qty, p),
                     positions |-> Put(pos1, ticker,
                         [shares |-> shares - qty, value |-> Round2((shares - qty) * p)]),
                     raised |-> FALSE]
          ELSE [cash |-> c,
                positions |-> Put(pos1, ticker,
                    [shares |-> shares, value |-> Round2(shares * p)]),
                raised |-> FALSE]

\* update_price adding the new value to the cached one
UpdatePriceAdds(pos, ticker, p) ==
    IF Held(pos, ticker)
    THEN Put(pos, ticker, [shares |-> pos[ticker].shares,
                           value |-> pos[ticker].value
                                     + Round2(pos[ticker].shares * p)])
    ELSE pos

\* update_price leaving the cached value as it is
UpdatePriceKeeps(pos, ticker, p) == pos

\* Portfolio.update_price
UpdatePrice(pos, ticker, p) ==
    IF Held(pos, ticker)
    THEN Put(pos, ticker, [shares |-> pos[ticker].shares,
                           value |-> Round2(pos[ticker].shares * p)])
    ELSE pos

-----------------------------------------------------------------------------
(* Schedule calculator *)

DayLen == 24 * TicksPerHour

\* the tick of the time-of-day mark HH:MM
HM(h, m) == ((h * 60 + m) * TicksPerHour) \div 60

DateOf(t) == t \div DayLen

\* date.weekday(): 0 = Monday ... 6 = Sunday
Weekday(d) == d % 7

\* datetime.combine(date, t)
Combine(d, t) == d * DayLen + t

\* line 206 with >= for >
QualifiesAtOrAfter(candidate, n) ==
    candidate >= n /\ Weekday(DateOf(candidate)) < 5

\* line 206: candidate > now and candidate.weekday() < 5
Qualifies(candidate, n) ==
    candidate > n /\ Weekday(DateOf(candidate)) < 5

\* line 211 taking the last mark of the day
FallbackMarkLast(rt) == rt[Len(rt)]

\* line 211: run_times[0]
FallbackMark(rt) == rt[1]

\* lines 209-210: while next_day.weekday() >= 5: next_day += 1
RECURSIVE SkipWeekend(_)
SkipWeekend(d) == IF Weekday(d) >= 5 THEN SkipWeekend(d + 1) ELSE d

\* lines 204-207 from mark i on, then lines 208-211
RECURSIVE ScanMarks(_, _, _)
ScanMarks(n, rt, i) ==
    IF i > Len(rt)
    THEN Combine(SkipWeekend(DateOf(n) + 1), FallbackMark(rt))
    ELSE IF Qualifies(Combine(DateOf(n), rt[i]), n)
         THEN Combine(DateOf(n), rt[i])
         ELSE ScanMarks(n, rt, i + 1)

GetNextRun(n, rt) == ScanMarks(n, rt, 1)

\* parse_times returns sorted(times): non-empty ascending lists, repeats allowed
MarkPool == {HM(0, 0), HM(9, 30), HM(10, 0), HM(15, 30), HM(16, 0), HM(23, 30)}

MarkLists ==
    {s \in UNION {[1..n -> MarkPool] : n \in 1..MaxMarks} :
        \A i \in 1..(Len(s) - 1) : s[i] <= s[i + 1]}

Instants == 0..(HorizonDays * DayLen - 1)

-----------------------------------------------------------------------------
(* History *)

NoCall ==
    [op |-> "none", payload |-> "", ticker |-> "", action |-> "", qty |-> 0,
     price |-> 0, cashBefore |-> 0, heldBefore |-> FALSE, sharesBefore |-> 0,
     domBefore |-> {}, posBefore |-> EmptyPositions, text |-> <<>>,
     raised |-> FALSE]

NoEnv ==
    [payloads |-> {}, prices |-> {}, rids |-> {}, passes |-> 0, polls |-> 0,
     capped |-> TRUE, horizon |-> 0]

NoJob ==
    [ticker |-> "", rid |-> "", polls |-> 0, complete |-> FALSE,
     fetched |-> FALSE, applied |-> FALSE, cash0 |-> 0, shares0 |-> 0,
     sentCash |-> 0, sentPosition |-> 0, seq |-> 0]

Zero == [t \in TickerSet |-> 0]

Bump(f, t, n) == [f EXCEPT ![t] = @ + n]

\* the running total of a ticker: a sell that brings it to <= 0 resets it to 0
Clamp(n) == IF n <= 0 THEN 0 ELSE n

-----------------------------------------------------------------------------
(* The ledger on its own: any sequence of apply_decision and update_price *)

Idle == /\ pc = "ledger"
        /\ steps < MaxSteps

LedgerInit ==
    /\ cash = DefaultCash
    /\ positions = EmptyPositions
    /\ file = [exists |-> FALSE, cash |-> 0, positions |-> <<>>]
    /\ pc = "ledger"
    /\ idx = 0
    /\ price = 0
    /\ run_id = ""
    /\ clock = 0
    /\ now = 0
    /\ next_run = 0
    /\ run_times = <<HM(9, 30)>>
    /\ env = NoEnv
    /\ last = NoCall
    /\ bought = Zero
    /\ sold = Zero
    /\ net = Zero
    /\ spent = 0
    /\ earned = 0
    /\ steps = 0
    /\ saves = 0
    /\ job = NoJob
    /\ done = <<>>
    /\ failure = "none"
    /\ passes = <<>>

\* one call portfolio.apply_decision(ticker, decision, p)
CallApply(ticker, decision, p) ==
    LET r == ApplyDecision(cash, positions, ticker, decision, p)
        ok == IntOk(decision.quantity)
        qty == IF ok THEN IntOf(decision.quantity) ELSE 0
        isBuy == ok /\ decision.action = "buy"
        isSell == ok /\ decision.action = "sell"
    IN  /\ cash' = r.cash
        /\ positions' = r.positions
        /\ last' = [op |-> "apply", payload |-> "object", ticker |-> ticker,
                    action |-> decision.action,
                    qty |-> qty, price |-> p, cashBefore |-> cash,
                    heldBefore |-> Held(positions, ticker),
                    sharesBefore |-> SharesOf(positions, ticker),
                    domBefore |-> DOMAIN positions, posBefore |-> positions,
                    text |-> <<>>, raised |-> r.raised]
        /\ bought' = IF isBuy THEN Bump(bought, ticker, qty) ELSE bought
        /\ sold' = IF isSell THEN Bump(sold, ticker, qty) ELSE sold
        /\ net' = IF isBuy THEN Bump(net, ticker, qty)
                  ELSE IF isSell THEN [net EXCEPT ![ticker] = Clamp(@ - qty)]
                  ELSE net
        /\ spent' = IF isBuy THEN spent + qty * p ELSE spent
        /\ earned' = IF isSell THEN earned + qty * p ELSE earned

\* one call portfolio.update_price(ticker, p)
CallUpdate(ticker, p) ==
    /\ positions' = UpdatePrice(positions, ticker, p)
    /\ last' = [op |-> "update", payload |-> "", ticker |-> ticker,
                action |-> "", qty |-> 0,
                price |-> p, cashBefore |-> cash,
                heldBefore |-> Held(positions, ticker),
                sharesBefore |-> SharesOf(positions, ticker),
                domBefore |-> DOMAIN positions, posBefore |-> positions,
                text |-> <<>>, raised |-> FALSE]
    /\ UNCHANGED <<cash, bought, sold, net, spent, earned>>

Numeric == {q \in QtyPayloads : q.kind = "num"}

LedgerBuy ==
    /\ Idle
    /\ \E t \in TickerSet, q \in Numeric, p \in Prices :
          CallApply(t, [action |-> "buy", quantity |-> q], p)
    /\ steps' = steps + 1
    /\ UNCHANGED <<file, pc, passVars, schedVars, saves, passes>>

LedgerSell ==
    /\ Idle
    /\ \E t \in TickerSet, q \in Numeric, p \in Prices :
          CallApply(t, [action |-> "sell", quantity |-> q], p)
    /\ steps' = steps + 1
    /\ UNCHANGED <<file, pc, passVars, schedVars, saves, passes>>

\* any other decision: action hold or absent, quantity absent or not a number
LedgerOther ==
    /\ Idle
    /\ \E t \in TickerSet, d \in Decisions, p \in Prices :
          /\ d.action \notin {"buy", "sell"} \/ d.quantity.kind # "num"
          /\ CallApply(t, d, p)
    /\ steps' = steps + 1
    /\ UNCHANGED <<file, pc, passVars, schedVars, saves, passes>>

LedgerUpdatePrice ==
    /\ Idle
    /\ \E t \in TickerSet, p \in Prices : CallUpdate(t, p)
    /\ steps' = steps + 1
    /\ UNCHANGED <<file, pc, passVars, schedVars, saves, passes>>

\* buy and sell decisions only
SpecTrades == LedgerInit /\ [][LedgerBuy \/ LedgerSell]_vars

\* every ledger call
SpecLedger ==
    LedgerInit /\ [][LedgerBuy \/ LedgerSell \/ LedgerOther \/ LedgerUpdatePrice]_vars

-----------------------------------------------------------------------------
(* The schedule calculator on its own: get_next_run(now) for any instant   *)
(* and any parsed list of marks                                            *)

SchedInit ==
    /\ cash = DefaultCash
    /\ positions = EmptyPositions
    /\ file = [exists |-> FALSE, cash |-> 0, positions |-> <<>>]
    /\ pc = "sched"
    /\ idx = 0
    /\ price = 0
    /\ run_id = ""
    /\ clock \in Instants
    /\ now = clock
    /\ next_run = 0
    /\ run_times \in MarkLists
    /\ env = NoEnv
    /\ last = NoCall
    /\ bought = Zero
    /\ sold = Zero
    /\ net = Zero
    /\ spent = 0
    /\ earned = 0
    /\ steps = 0
    /\ saves = 0
    /\ job = NoJob
    /\ done = <<>>
    /\ failure = "none"
    /\ passes = <<>>

\* next_run = get_next_run(now)
ComputeNextRun ==
    /\ pc = "sched"
    /\ next_run' = GetNextRun(now, run_times)
    /\ pc' = "scheduled"
    /\ UNCHANGED <<ledgerVars, file, passVars, clock, now, config, histVars,
                   steps, saves, passes>>

SpecSched == SchedInit /\ [][ComputeNextRun]_vars

-----------------------------------------------------------------------------
(* The scheduler process: main, run_once and the job client *)

MaxPasses == 1
MaxRuns == 2
MaxPolls == 1

SleepSecs == 30
PollInterval == 5
OneSecond == 1

LongPolls == 3

MaxClock == HorizonDays * DayLen

\* the clock d ticks later; instants from the horizon on are not told apart
Advance(c, d) == IF c + d > env.horizon THEN env.horizon ELSE c + d

\* the number of status requests of a job, counted up to LongPolls + 1;
\* beyond that only whether it is odd or even is kept
CountPoll(n) ==
    IF n <= LongPolls THEN n + 1 ELSE LongPolls + 1 + ((n - LongPolls) % 2)

\* line 216 firing on every iteration
PassDueAlways(n, nr) == TRUE

\* line 216: if now >= next_run
PassDue(n, nr) == n >= nr

\* line 221: now + timedelta(seconds=1)
RecomputeFrom(n) == n + OneSecond

\* line 104 leaving the loop after the first answer
PollDoneAlways(is_complete) == TRUE

\* line 104 never leaving the loop
PollDoneNever(is_complete) == FALSE

\* line 104: if info.get("is_complete"): break
PollDone(is_complete) == is_complete

\* an exception of a status or result request caught, the ticker skipped
AfterFailureSkip(i) == IF i < Len(Tickers) THEN "ticker" ELSE "save"

\* lines 102, 111, 129-130: the exception leaves run_once and main
AfterFailure(i) == "crashed"

\* the decisions a job may return in this specification
JobDecisions ==
    [action : Actions,
     quantity : {[kind |-> "missing", v |-> 0], [kind |-> "bad", v |-> 0],
                 [kind |-> "num", v |-> 10], [kind |-> "num", v |-> 15]}]

NoDecision == [action |-> "none", quantity |-> [kind |-> "missing", v |-> 0]]

\* A JSON text is a sequence of tokens: punctuation, strings and numbers.
Punct(c) == [t |-> "punct", s |-> c, n |-> 0]

Str(x) == [t |-> "str", s |-> x, n |-> 0]

Num(v) == [t |-> "num", s |-> "", n |-> v]

RECURSIVE Join(_)
\* the members of an object, separated by commas
Join(members) ==
    IF members = <<>> THEN <<>>
    ELSE IF Len(members) = 1 THEN members[1]
    ELSE members[1] \o <<Punct(",")>> \o Join(Tail(members))

\* json.dumps of a decision object: a key the object lacks is not written, a
\* quantity is written as a number, or as a string when it is no number
Dumps(d) ==
    LET a == IF d.action = "none" THEN <<>>
             ELSE << <<Str("action"), Punct(":"), Str(d.action)>> >>
        q == IF d.quantity.kind = "missing" THEN <<>>
             ELSE IF d.quantity.kind = "num"
             THEN << <<Str("quantity"), Punct(":"), Num(d.quantity.v)>> >>
             ELSE << <<Str("quantity"), Punct(":"), Str("many")>> >>
    IN  <<Punct("{")>> \o Join(a \o q) \o <<Punct("}")>>

\* the value read for one key of a decision object
WithMember(d, key, value) ==
    IF key = "action"
    THEN [d EXCEPT !.action = IF value.t = "str" THEN value.s ELSE "hold"]
    ELSE IF key = "quantity"
    THEN [d EXCEPT !.quantity = IF value.t = "num"
                                THEN [kind |-> "num", v |-> value.n]
                                ELSE [kind |-> "bad", v |-> 0]]
    ELSE d

JsonError == [ok |-> FALSE, isObject |-> FALSE, decision |-> NoDecision]

RECURSIVE Members(_, _)
\* the members key : value, key : value ... between the braces of an object
Members(ts, d) ==
    IF Len(ts) >= 3 /\ ts[1].t = "str" /\ ts[2] = Punct(":")
                    /\ ts[3].t \in {"str", "num"}
    THEN LET d2 == WithMember(d, ts[1].s, ts[3])
             rest == SubSeq(ts, 4, Len(ts))
         IN  IF rest = <<>>
             THEN [ok |-> TRUE, isObject |-> TRUE, decision |-> d2]
             ELSE IF Len(rest) > 1 /\ rest[1] = Punct(",")
             THEN Members(Tail(rest), d2)
             ELSE JsonError
    ELSE JsonError

\* json.loads: an object, another JSON value, or JSONDecodeError
JsonLoads(ts) ==
    IF ts = <<Punct("{"), Punct("}")>>
    THEN [ok |-> TRUE, isObject |-> TRUE, decision |-> NoDecision]
    ELSE IF Len(ts) > 2 /\ ts[1] = Punct("{") /\ ts[Len(ts)] = Punct("}")
    THEN Members(SubSeq(ts, 2, Len(ts) - 1), NoDecision)
    ELSE IF ts = <<Punct("["), Punct("]")>>
    THEN [ok |-> TRUE, isObject |-> FALSE, decision |-> NoDecision]
    ELSE JsonError

\* a text cut off after its first key, and the text of an empty list
GarbageText == <<Punct("{"), Str("action")>>

ListText == <<Punct("["), Punct("]")>>

\* result.get("final_decision"): absent/null, an object, a string (that is
\* no JSON, JSON of a non-object, or JSON of an object), or another value
Payloads ==
    {[form |-> f, text |-> <<>>, decision |-> NoDecision] :
         f \in {"absent", "other"}}
    \cup {[form |-> "object", text |-> <<>>, decision |-> d] : d \in JobDecisions}
    \cup {[form |-> "text", text |-> j, decision |-> NoDecision] :
              j \in {GarbageText, ListText}}
    \cup {[form |-> "text", text |-> Dumps(d), decision |-> NoDecision] :
              d \in JobDecisions}

\* lines 132-136 without the decoding: a string is never a decision
ParsedUndecoded(payload) ==
    IF payload.form = "text"
    THEN [form |-> "other", text |-> <<>>, decision |-> NoDecision]
    ELSE payload

\* lines 132-136: a string is decoded, and None replaces what does not decode
Parsed(payload) ==
    IF payload.form = "text"
    THEN LET r == JsonLoads(payload.text)
         IN  IF ~r.ok
             THEN [form |-> "absent", text |-> <<>>, decision |-> NoDecision]
             ELSE IF r.isObject
             THEN [form |-> "object", text |-> <<>>, decision |-> r.decision]
             ELSE [form |-> "other", text |-> <<>>, decision |-> NoDecision]
    ELSE payload

\* line 137: isinstance(decision, dict)
IsDict(d) == d.form = "object"

\* what kind of final_decision arrived
PayloadClass(payload) ==
    IF payload.form = "text"
    THEN LET r == JsonLoads(payload.text)
         IN  IF ~r.ok THEN "garbage" ELSE IF r.isObject THEN "dict" ELSE "list"
    ELSE payload.form

\* line 125 testing only for None
HasRunIdNotNone(rid) == rid # "none"

\* line 125: if not run_id ("" and None are both falsy)
HasRunId(rid) == rid \notin {"", "none"}

\* the for loop of line 116 left after every ticker
AfterTickerSave(i) == "save"

\* line 116: the next ticker, or out of run_once to line 219
AfterTicker(i) == IF i < Len(Tickers) THEN "ticker" ELSE "save"

\* Portfolio.save: the JSON document the file holds afterwards, as the set
\* of the keys written and their values
SaveFile(c, pos) ==
    [exists |-> TRUE, fields |-> {"cash", "positions"}, cash |-> c,
     positions |-> pos]

\* Portfolio.load taking the default whenever the file exists without cash
\* or without positions
LoadAllOrNothing(f, default_cash) ==
    IF f.exists /\ f.fields = {"cash", "positions"}
    THEN [cash |-> f.cash, positions |-> f.positions]
    ELSE [cash |-> default_cash, positions |-> EmptyPositions]

\* Portfolio.load
Load(f, default_cash) ==
    IF f.exists
    THEN [cash |-> IF "cash" \in f.fields THEN f.cash ELSE default_cash,
          positions |-> IF "positions" \in f.fields THEN f.positions
                        ELSE EmptyPositions]
    ELSE [cash |-> default_cash, positions |-> EmptyPositions]

NoFile ==
    [exists |-> FALSE, fields |-> {}, cash |-> 0, positions |-> EmptyPositions]

\* the portfolio file at process start: absent, left by an earlier run, or
\* written by hand without the cash
InitialFiles ==
    LET held == [t \in {Tickers[1]} |-> [shares |-> 1, value |-> Round2(1004)]]
    IN  {NoFile, SaveFile(DefaultCash - 1004, held),
         [exists |-> TRUE, fields |-> {"positions"}, cash |-> 0,
          positions |-> held]}

\* every answer, for one pass
RichEnv ==
    [payloads |-> Payloads, prices |-> Prices, rids |-> {"run", "", "none"},
     passes |-> MaxPasses, polls |-> MaxPolls, capped |-> TRUE,
     horizon |-> 2 * MaxClock]

\* a few answers, for several passes
PlainEnv ==
    [payloads |-> {p \in Payloads :
                      \/ p.form = "absent"
                      \/ /\ p.form = "object"
                         /\ p.decision.action \in {"buy", "sell"}
                         /\ p.decision.quantity.kind = "num"},
     prices |-> Prices \ {0}, rids |-> {"run", ""}, passes |-> MaxRuns,
     polls |-> MaxPolls, capped |-> TRUE, horizon |-> 2 * MaxClock]

StartInstants == {Combine(0, HM(9, 0)), Combine(4, HM(15, 0))}

ConfiguredMarks == {<<HM(9, 30), HM(15, 30)>>, <<HM(23, 30)>>}

Init ==
    /\ file \in InitialFiles
    /\ cash = Load(file, DefaultCash).cash
    /\ positions = Load(file, DefaultCash).positions
    /\ pc = "loop"
    /\ idx = 0
    /\ price = 0
    /\ run_id = ""
    /\ clock = Combine(0, HM(9, 0))
    /\ now = clock
    /\ run_times = <<HM(9, 30), HM(15, 30)>>
    /\ env = RichEnv
    /\ next_run = GetNextRun(clock, run_times)
    /\ last = NoCall
    /\ bought = Zero
    /\ sold = Zero
    /\ net = Zero
    /\ spent = 0
    /\ earned = 0
    /\ steps = 0
    /\ saves = 0
    /\ job = NoJob
    /\ done = <<>>
    /\ failure = "none"
    /\ passes = <<>>

\* lines 215-218: the pass fires
StartPass ==
    /\ pc = "loop"
    /\ PassDue(clock, next_run)
    /\ steps < env.passes
    /\ now' = clock
    /\ steps' = steps + 1
    /\ idx' = 1
    /\ pc' = IF Len(Tickers) = 0 THEN "save" ELSE "ticker"
    /\ passes' = Append(passes, [trigger |-> next_run, at |-> clock, file |-> file])
    /\ UNCHANGED <<ledgerVars, file, price, run_id, job, done, failure, clock,
                   next_run, config, histVars, saves>>

\* lines 215-216: not yet time
NotYet ==
    /\ pc = "loop"
    /\ ~PassDue(clock, next_run)
    /\ now' = clock
    /\ pc' = "sleep"
    /\ UNCHANGED <<ledgerVars, file, passVars, clock, next_run, config,
                   histVars, steps, saves, passes>>

\* line 222: time.sleep(30)
Sleep ==
    /\ pc = "sleep"
    /\ steps < env.passes
    /\ clock' = Advance(clock, SleepSecs)
    /\ pc' = "loop"
    /\ UNCHANGED <<ledgerVars, file, passVars, now, next_run, config,
                   histVars, steps, saves, passes>>

\* lines 117-123 with the cash read once, before the first ticker
NewJobStale(p, rid) ==
    LET t == Tickers[idx]
        pos1 == IF Held(positions, t) THEN UpdatePrice(positions, t, p)
                ELSE positions
    IN  [ticker |-> t, rid |-> rid, polls |-> 0, complete |-> FALSE,
         fetched |-> FALSE, applied |-> FALSE, cash0 |-> cash,
         shares0 |-> SharesOf(positions, t),
         sentCash |-> IF job.ticker = "" THEN cash ELSE job.sentCash,
         sentPosition |-> SharesOf(pos1, t),
         seq |-> IF rid = "run" THEN job.seq + 1 ELSE job.seq]

\* lines 117-123: the price, the refresh of a held position, the snapshot
NewJob(p, rid) ==
    LET t == Tickers[idx]
        pos1 == IF Held(positions, t) THEN UpdatePrice(positions, t, p)
                ELSE positions
    IN  [ticker |-> t, rid |-> rid, polls |-> 0, complete |-> FALSE,
         fetched |-> FALSE, applied |-> FALSE, cash0 |-> cash,
         shares0 |-> SharesOf(positions, t), sentCash |-> cash,
         sentPosition |-> SharesOf(pos1, t),
         seq |-> IF rid = "run" THEN job.seq + 1 ELSE job.seq]

\* lines 117-124: start_analysis raises (transport failure or HTTP error)
StartRaises ==
    /\ pc = "ticker"
    /\ \E p \in env.prices :
          /\ price' = p
          /\ positions' = UpdatePrice(positions, Tickers[idx], p)
          /\ job' = NewJob(p, "raised")
    /\ failure' = "start"
    /\ pc' = "crashed"
    /\ last' = NoCall
    /\ UNCHANGED <<cash, file, idx, run_id, done, schedVars, bought, sold, net,
                   spent, earned, steps, saves, passes>>

\* lines 117-129: start_analysis returns a job id, "" or None
StartReturns ==
    /\ pc = "ticker"
    /\ \E p \in env.prices, rid \in env.rids :
          /\ price' = p
          /\ positions' = UpdatePrice(positions, Tickers[idx], p)
          /\ job' = NewJob(p, rid)
          /\ run_id' = rid
          /\ IF HasRunId(rid)
             THEN pc' = "poll" /\ idx' = idx /\ done' = done
             ELSE /\ pc' = AfterTicker(idx)
                  /\ idx' = idx + 1
                  /\ done' = Append(done, "skipped")
    /\ last' = NoCall
    /\ UNCHANGED <<cash, file, failure, schedVars, bought, sold, net, spent,
                   earned, steps, saves, passes>>

\* lines 100-102: one status request raises
PollRaises ==
    /\ pc = "poll"
    /\ clock' = Advance(clock, PollInterval)
    /\ job' = [job EXCEPT !.polls = CountPoll(@)]
    /\ failure' = "poll"
    /\ pc' = AfterFailure(idx)
    /\ UNCHANGED <<ledgerVars, file, idx, price, run_id, done, now, next_run,
                   config, histVars, steps, saves, passes>>

\* lines 100-105: one status request answers is_complete or not
PollAnswers ==
    /\ pc = "poll"
    /\ clock' = Advance(clock, PollInterval)
    /\ \E complete \in BOOLEAN :
          /\ (~complete /\ env.capped) => job.polls < env.polls
          /\ job' = [job EXCEPT !.polls = CountPoll(@), !.complete = complete]
          /\ pc' = IF PollDone(complete) THEN "fetch" ELSE "poll"
    /\ UNCHANGED <<ledgerVars, file, idx, price, run_id, done, failure, now,
                   next_run, config, histVars, steps, saves, passes>>

\* lines 110-111: fetch_result raises
FetchRaises ==
    /\ pc = "fetch"
    /\ failure' = "fetch"
    /\ pc' = AfterFailure(idx)
    /\ UNCHANGED <<ledgerVars, file, idx, price, run_id, job, done, schedVars,
                   histVars, steps, saves, passes>>

\* the record of one result handled at lines 130-142
ResultCall(payload, raised) ==
    LET t == Tickers[idx]
        d == Parsed(payload)
    IN  [op |-> "result", payload |-> PayloadClass(payload), ticker |-> t,
         action |-> IF IsDict(d) THEN d.decision.action ELSE "",
         qty |-> IF IsDict(d) /\ IntOk(d.decision.quantity)
                 THEN IntOf(d.decision.quantity) ELSE 0,
         price |-> price, cashBefore |-> cash,
         heldBefore |-> Held(positions, t),
         sharesBefore |-> SharesOf(positions, t),
         domBefore |-> DOMAIN positions, posBefore |-> positions,
         text |-> payload.text, raised |-> raised]

\* lines 130-142 on the ledger: decode, apply a decision object, refresh
HandleResult(c, pos, t, payload, p) ==
    LET d == Parsed(payload)
        r == ApplyDecision(c, pos, t, d.decision, p)
    IN  IF IsDict(d)
        THEN IF r.raised
             THEN [cash |-> c, positions |-> pos, raised |-> TRUE,
                   outcome |-> "raised"]
             ELSE [cash |-> r.cash, positions |-> UpdatePrice(r.positions, t, p),
                   raised |-> FALSE, outcome |-> "applied"]
        ELSE [cash |-> c, positions |-> UpdatePrice(pos, t, p),
              raised |-> FALSE, outcome |-> "nodecision"]

\* lines 130-142: the result is fetched, decoded, applied, the price refreshed
FetchResult ==
    /\ pc = "fetch"
    /\ \E payload \in env.payloads :
          LET h == HandleResult(cash, positions, Tickers[idx], payload, price)
          IN  /\ cash' = h.cash
              /\ positions' = h.positions
              /\ last' = ResultCall(payload, h.raised)
              /\ job' = [job EXCEPT !.fetched = TRUE,
                                    !.applied = (h.outcome = "applied")]
              /\ IF h.raised
                 THEN /\ pc' = "crashed"
                      /\ failure' = "apply"
                      /\ UNCHANGED <<idx, done>>
                 ELSE /\ done' = Append(done, h.outcome)
                      /\ pc' = AfterTicker(idx)
                      /\ idx' = idx + 1
                      /\ UNCHANGED failure
    /\ UNCHANGED <<file, price, run_id, schedVars, bought, sold, net, spent,
                   earned, steps, saves, passes>>

\* lines 219-221: the ledger is saved and the next run computed
Save ==
    /\ pc = "save"
    /\ file' = SaveFile(cash, positions)
    /\ saves' = saves + 1
    /\ next_run' = GetNextRun(RecomputeFrom(now), run_times)
    /\ pc' = "sleep"
    /\ idx' = 0
    /\ price' = 0
    /\ run_id' = ""
    /\ job' = NoJob
    /\ done' = <<>>
    /\ last' = NoCall
    /\ UNCHANGED <<ledgerVars, failure, clock, now, config, bought, sold,
                   net, spent, earned, steps, passes>>

Next ==
    \/ StartPass
    \/ NotYet
    \/ Sleep
    \/ StartRaises
    \/ StartReturns
    \/ PollRaises
    \/ PollAnswers
    \/ FetchRaises
    \/ FetchResult
    \/ Save

Spec == Init /\ [][Next]_vars

\* the same process over several passes, with fewer answers
InitRuns ==
    /\ file = NoFile
    /\ cash = Load(file, DefaultCash).cash
    /\ positions = Load(file, DefaultCash).positions
    /\ pc = "loop"
    /\ idx = 0
    /\ price = 0
    /\ run_id = ""
    /\ clock \in StartInstants
    /\ now = clock
    /\ run_times \in ConfiguredMarks
    /\ env = PlainEnv
    /\ next_run = GetNextRun(clock, run_times)
    /\ last = NoCall
    /\ bought = Zero
    /\ sold = Zero
    /\ net = Zero
    /\ spent = 0
    /\ earned = 0
    /\ steps = 0
    /\ saves = 0
    /\ job = NoJob
    /\ done = <<>>
    /\ failure = "none"
    /\ passes = <<>>

SpecRuns == InitRuns /\ [][Next]_vars

\* one answer of each remote call, for passes of many status requests
ClockEnv ==
    [payloads |-> {p \in Payloads : p.form = "absent"}, prices |-> Prices \ {0},
     rids |-> {"run"}, passes |-> MaxRuns, polls |-> LongPolls, capped |-> TRUE,
     horizon |-> 2 * MaxClock]

\* Monday morning, and a Friday afternoon shortly before the first mark
ClockStarts == {Combine(0, HM(9, 0)), Combine(4, HM(14, 48))}

ClockMarks == {<<HM(15, 0), HM(18, 0)>>}

InitClock ==
    /\ file = NoFile
    /\ cash = Load(file, DefaultCash).cash
    /\ positions = Load(file, DefaultCash).positions
    /\ pc = "loop"
    /\ idx = 0
    /\ price = 0
    /\ run_id = ""
    /\ clock \in ClockStarts
    /\ now = clock
    /\ run_times \in ClockMarks
    /\ env = ClockEnv
    /\ next_run = GetNextRun(clock, run_times)
    /\ last = NoCall
    /\ bought = Zero
    /\ sold = Zero
    /\ net = Zero
    /\ spent = 0
    /\ earned = 0
    /\ steps = 0
    /\ saves = 0
    /\ job = NoJob
    /\ done = <<>>
    /\ failure = "none"
    /\ passes = <<>>

SpecClock == InitClock /\ [][Next]_vars

\* Tuesday evening of the first week
LiveHorizon == Combine(1, HM(21, 0))

\* no remote call fails, every result is without a decision, and a status
\* request may answer "not complete" any number of times
LiveEnv ==
    [payloads |-> {p \in Payloads : p.form = "absent"}, prices |-> Prices \ {0},
     rids |-> {"run"}, passes |-> MaxRuns, polls |-> 0, capped |-> FALSE,
     horizon |-> LiveHorizon]

InitLive ==
    /\ file = NoFile
    /\ cash = Load(file, DefaultCash).cash
    /\ positions = Load(file, DefaultCash).positions
    /\ pc = "loop"
    /\ idx = 0
    /\ price = 0
    /\ run_id = ""
    /\ clock = Combine(0, HM(9, 0))
    /\ now = clock
    /\ run_times \in ClockMarks
    /\ env = LiveEnv
    /\ next_run = GetNextRun(clock, run_times)
    /\ last = NoCall
    /\ bought = Zero
    /\ sold = Zero
    /\ net = Zero
    /\ spent = 0
    /\ earned = 0
    /\ steps = 0
    /\ saves = 0
    /\ job = NoJob
    /\ done = <<>>
    /\ failure = "none"
    /\ passes = <<>>

\* the steps of a run in which no remote call raises
NextLive ==
    \/ StartPass
    \/ NotYet
    \/ Sleep
    \/ StartReturns
    \/ PollAnswers
    \/ FetchResult
    \/ Save

\* a status request answered is_complete
PollComplete == PollAnswers /\ pc' = "fetch"

\* a status request answered not complete
PollPending == PollAnswers /\ pc' = "poll"

\* The process is one thread that takes its next step whenever it has one,
\* and every job is eventually reported complete.
SpecLive ==
    /\ InitLive
    /\ [][NextLive]_vars
    /\ WF_vars(NextLive)
    /\ WF_vars(PollComplete)

-----------------------------------------------------------------------------
(* Claims about the ledger *)

\* C1: every ticker that is a key of positions has shares > 0; no position
\* is retained with zero or negative shares.
C1_HeldSharesPositive ==
    \A t \in DOMAIN positions : positions[t].shares > 0

C3_CashIsNetOfTrades ==
    /\ cash = DefaultCash - spent + earned
    /\ (last.op = "apply" /\ ~last.raised /\ last.action = "buy")
          => cash = last.cashBefore - last.qty * last.price
    /\ (last.op = "apply" /\ ~last.raised /\ last.action = "sell")
          => cash = last.cashBefore + last.qty * last.price
    /\ (last.op = "apply" /\ ~last.raised /\ last.action = "sell"
            /\ last.qty > last.sharesBefore)
          => ~Held(positions, last.ticker)

\* C3 witness: with cash already negative, more shares are sold than held
C3_OversellWithNegativeCash ==
    /\ last.op = "apply" /\ ~last.raised /\ last.action = "sell"
    /\ last.sharesBefore > 0
    /\ last.qty > last.sharesBefore
    /\ last.price > 0
    /\ last.cashBefore < 0
    /\ cash = last.cashBefore + last.qty * last.price

-----------------------------------------------------------------------------
(* Claims about the schedule calculator *)

\* C4: get_next_run(now) is strictly later than now and falls on Monday to
\* Friday; a mark exactly equal to now is not returned.
C4_NextRunLaterOnWeekday ==
    pc = "scheduled" =>
        /\ next_run > now
        /\ Weekday(DateOf(next_run)) \in 0..4

\* C4 witness: now is itself a mark on a weekday, and a later instant is returned
C4_MarkEqualToNow ==
    /\ pc = "scheduled"
    /\ Weekday(DateOf(now)) < 5
    /\ \E i \in 1..Len(run_times) : Combine(DateOf(now), run_times[i]) = now
    /\ next_run > now

\* every (date, mark) instant on a Monday-Friday date strictly later than n;
\* the four dates from n's own cover a whole weekend
Eligible(n, rt) ==
    {c \in {Combine(d, rt[i]) : d \in DateOf(n)..(DateOf(n) + 3), i \in 1..Len(rt)} :
        c > n /\ Weekday(DateOf(c)) < 5}

Earliest(S) == CHOOSE x \in S : \A y \in S : x <= y

DayNames == <<"Mon", "Tue", "Wed", "Thu", "Fri", "Sat", "Sun">>

\* the date of the named weekday in the given week
Day(name, week) == 7 * week + (CHOOSE i \in 1..7 : DayNames[i] = name) - 1

SpecMarks == <<HM(9, 30), HM(15, 30)>>

\* C5: get_next_run(now) is the earliest eligible instant; with marks
\* [09:30, 15:30]: Mon 10:00 -> Mon 15:30, Mon 16:00 -> Tue 09:30,
\* Fri 16:00 -> Mon 09:30, Sat 10:00 -> Mon 09:30.
C5_NextRunIsEarliestEligible ==
    pc = "scheduled" =>
        /\ next_run = Earliest(Eligible(now, run_times))
        /\ run_times = SpecMarks =>
            /\ now = Combine(Day("Mon", 0), HM(10, 0))
                  => next_run = Combine(Day("Mon", 0), HM(15, 30))
            /\ now = Combine(Day("Mon", 0), HM(16, 0))
                  => next_run = Combine(Day("Tue", 0), HM(9, 30))
            /\ now = Combine(Day("Fri", 0), HM(16, 0))
                  => next_run = Combine(Day("Mon", 1), HM(9, 30))
            /\ now = Combine(Day("Sat", 0), HM(10, 0))
                  => next_run = Combine(Day("Mon", 1), HM(9, 30))

\* C5 witness: Friday 16:00 with marks [09:30, 15:30] has been scheduled
C5_FridayAfternoon ==
    /\ pc = "scheduled"
    /\ run_times = SpecMarks
    /\ now = Combine(Day("Fri", 0), HM(16, 0))
    /\ next_run = Combine(Day("Mon", 1), HM(9, 30))

-----------------------------------------------------------------------------
(* Claims about a pass *)

IndexOf(t) == CHOOSE i \in 1..Len(Tickers) : Tickers[i] = t

\* C6: a transport or HTTP failure of start_analysis for one ticker does not
\* abort the pass: the ticker is skipped and the pass goes on to the next
\* ticker or to the save.
C6_StartFailureSkipsTicker ==
    job.rid = "raised" =>
        /\ pc \in {"ticker", "save"}
        /\ failure = "none"

\* C7: a failure while fetching or parsing one ticker's result (fetch_result
\* raising, an undecodable decision string, a decision with a malformed
\* quantity) does not stop the pass.
C7_ResultFailureDoesNotStopPass ==
    /\ failure \notin {"fetch", "apply"}
    /\ (last.op = "result" /\ (last.payload = "garbage" \/ last.raised))
          => pc \in {"ticker", "save"}

\* C8: a decision with an unrecognized or missing action, or a malformed
\* payload, is a no-op on the ledger for a held or an unheld ticker: cash, the
\* set of held tickers and the shares are unchanged, the process does not
\* crash, and a held position's value is refreshed from the price.
C8_UnusableDecisionIsNoOp ==
    (/\ last.op = "result"
     /\ \/ last.payload \in {"absent", "other", "garbage", "list"}
        \/ last.action \notin {"buy", "sell"}
        \/ last.raised)
    => /\ pc # "crashed"
       /\ cash = last.cashBefore
       /\ DOMAIN positions = last.domBefore
       /\ SharesOf(positions, last.ticker) = last.sharesBefore
       /\ Held(positions, last.ticker) =>
             positions[last.ticker].value
                = Round2(positions[last.ticker].shares * last.price)

\* C9: when start_analysis returns an empty or absent job id the ticker is
\* skipped: no status poll, no result fetch and no apply_decision happens for
\* it, its shares and the cash are unchanged, and the pass continues with the
\* next ticker (or the save after the last one).
C9_NoJobIdSkipsTicker ==
    (job.ticker # "" /\ job.rid \in {"", "none"}) =>
        /\ job.polls = 0
        /\ ~job.fetched
        /\ ~job.applied
        /\ last.op # "result"
        /\ cash = job.cash0
        /\ SharesOf(positions, job.ticker) = job.shares0
        /\ failure = "none"
        /\ idx = IndexOf(job.ticker) + 1
        /\ Len(done) = IndexOf(job.ticker)
        /\ done[Len(done)] = "skipped"
        /\ pc = IF idx <= Len(Tickers) THEN "ticker" ELSE "save"

\* C9 witness: the job of a held first ticker got an empty id and the pass
\* stands at the second ticker
C9_HeldTickerSkipped ==
    /\ job.ticker = Tickers[1]
    /\ job.rid = ""
    /\ job.shares0 > 0
    /\ pc = "ticker"
    /\ idx = 2

\* C10: the ledger is persisted exactly once per pass and only after the last
\* ticker has been processed: no save between two tickers of a pass, and each
\* completed pass is followed by one save before the next pass can start.
C10_OneSavePerCompletedPass ==
    /\ [](/\ pc \in {"ticker", "poll", "fetch", "save"} => saves = steps - 1
          /\ pc \in {"loop", "sleep"} => saves = steps
          /\ pc = "save" => Len(done) = Len(Tickers))
    /\ [][(saves' # saves \/ file' # file) =>
             /\ pc = "save"
             /\ Len(done) = Len(Tickers)
             /\ saves' = saves + 1
             /\ file' = SaveFile(cash, positions)]_vars

\* C10 witness: a second pass has run to completion and been saved
C10_SecondPassSaved ==
    /\ pc = "sleep"
    /\ steps = 2
    /\ saves = 2
    /\ file = SaveFile(cash, positions)
    /\ \E t \in TickerSet : Held(positions, t)

\* ------------------------------------------------------------------
\* Claims about the main loop

\* the pass started last
LastPass == passes[Len(passes)]

\* C11: a pass fires only when now >= next_run; the next_run computed after a
\* pass is strictly later than the next_run that triggered the pass and than
\* the instant at which the pass fired; the triggering instants of successive
\* passes are strictly increasing, so no instant triggers two passes.
C11_NextRunStrictlyIncreasing ==
    /\ \A i \in 1..Len(passes) : passes[i].at >= passes[i].trigger
    /\ \A i, j \in 1..Len(passes) :
          i < j => /\ passes[i].trigger < passes[j].trigger
                   /\ passes[i].at < passes[j].trigger
    /\ (Len(passes) > 0 /\ saves = Len(passes)) =>
          /\ next_run > LastPass.trigger
          /\ next_run > LastPass.at

\* two passes, the first fired at the very instant of its mark
C11_FiredAtTheMark ==
    /\ Len(passes) = 2
    /\ passes[1].at = passes[1].trigger
    /\ saves = 1

\* C15: every pass begins at an instant whose weekday is Monday to Friday.
C15_PassesStartOnWeekdays ==
    \A i \in 1..Len(passes) : Weekday(DateOf(passes[i].at)) < 5

\* ------------------------------------------------------------------
\* Claims about the forms of a decision

\* final_decision delivered as the object d
AsObject(d) == [form |-> "object", text |-> <<>>, decision |-> d]

\* C12: a final_decision delivered as the JSON text of a decision object has
\* the effect of the same object delivered natively (cash, positions, and
\* whether the call raises), for every ledger, ticker, price and decision; a
\* text that is not the JSON of an object leaves cash and all shares unchanged.
C12_TextDecisionAppliedAsObject ==
    (last.op = "result" /\ last.text # <<>>) =>
        /\ \A d \in JobDecisions :
              last.text = Dumps(d) =>
                  LET h == HandleResult(last.cashBefore, last.posBefore,
                                        last.ticker, AsObject(d), last.price)
                  IN  /\ cash = h.cash
                      /\ positions = h.positions
                      /\ last.raised = h.raised
        /\ (\A d \in JobDecisions : last.text # Dumps(d)) =>
              /\ ~last.raised
              /\ cash = last.cashBefore
              /\ \A t \in TickerSet :
                    SharesOf(positions, t) = SharesOf(last.posBefore, t)

\* a sale delivered as text has sold a held position
C12_TextSaleApplied ==
    /\ last.op = "result"
    /\ last.text # <<>>
    /\ last.action = "sell"
    /\ last.heldBefore
    /\ cash > last.cashBefore
    /\ positions # last.posBefore

\* ------------------------------------------------------------------
\* Claims about the portfolio file

\* default cash amounts a later start might pass to load
DefaultCashes == {0, DefaultCash, DefaultCash + 1}

\* C13: after save, load of the same file yields the saved cash and positions
\* whatever default cash is passed; at start the default cash is the ledger's
\* cash only when the file is absent or has no cash field.
C13_LoadReturnsWhatSaveWrote ==
    /\ (saves > 0 /\ pc = "sleep") =>
          \A dc \in DefaultCashes :
              Load(file, dc) = [cash |-> cash, positions |-> positions]
    /\ steps = 0 =>
          /\ cash = IF file.exists /\ "cash" \in file.fields THEN file.cash
                    ELSE DefaultCash
          /\ positions = IF file.exists /\ "positions" \in file.fields
                         THEN file.positions ELSE EmptyPositions

\* a saved ledger that differs from the ledger the process started with
C13_SavedAfterTrades ==
    /\ saves > 0
    /\ pc = "sleep"
    /\ cash \notin DefaultCashes
    /\ passes[1].file.exists
    /\ "cash" \notin passes[1].file.fields
    /\ Held(positions, Tickers[2])
    /\ file.positions = positions

\* ------------------------------------------------------------------
\* Claims about the price refresh

\* C14: update_price is idempotent (a second call with the same arguments
\* changes nothing), never changes cash, any position's shares or the set of
\* held tickers, and changes nothing at all when the ticker is not held.
C14_UpdatePriceIdempotent ==
    last.op = "update" =>
        /\ UpdatePrice(positions, last.ticker, last.price) = positions
        /\ cash = last.cashBefore
        /\ DOMAIN positions = last.domBefore
        /\ \A t \in DOMAIN positions :
              positions[t].shares = last.posBefore[t].shares
        /\ \A t \in DOMAIN positions \ {last.ticker} :
              positions[t] = last.posBefore[t]
        /\ ~last.heldBefore => positions = last.posBefore

\* a refresh that changed the cached value of a held position
C14_ValueRefreshed ==
    /\ last.op = "update"
    /\ last.heldBefore
    /\ positions # last.posBefore
    /\ positions[last.ticker].value > 0

\* ------------------------------------------------------------------
\* Claims about the order of the remote calls of a pass

\* the jobs of this pass whose result was handled
Finished == Cardinality({i \in 1..Len(done) : done[i] # "skipped"})

\* the jobs of this pass submitted and not yet finished
InFlight == job.seq - Finished

\* C16: a job is submitted, polled at least once, reported complete, its
\* result fetched, and then applied or skipped, in this order; no result is
\* fetched before a poll answered is_complete, nothing is applied before the
\* fetch, the next ticker's job is submitted only after the current ticker is
\* finished, and at most one job is in flight.
C16_JobLifecycleInOrder ==
    /\ pc = "poll" =>
          /\ HasRunId(job.rid)
          /\ ~job.complete
          /\ ~job.fetched
    /\ pc = "fetch" =>
          /\ job.polls >= 1
          /\ job.complete
          /\ ~job.fetched
    /\ job.fetched => (job.complete /\ job.polls >= 1 /\ HasRunId(job.rid))
    /\ job.applied => job.fetched
    /\ pc \in {"poll", "fetch"} =>
          /\ job.ticker = Tickers[idx]
          /\ Len(done) = idx - 1
          /\ InFlight = 1
    /\ pc \in {"ticker", "save"} =>
          /\ Len(done) = idx - 1
          /\ job.ticker # "" => (job.fetched \/ ~HasRunId(job.rid))
          /\ InFlight = 0
    /\ InFlight \in {0, 1}

\* the second job of a pass applied after two status requests
C16_SecondJobApplied ==
    /\ pc = "save"
    /\ job.seq = 2
    /\ job.polls = 2
    /\ job.applied
    /\ done[1] = "applied"

\* C17: tickers are processed in list order, and the cash and the held
\* quantity submitted with a ticker's job are the ledger's cash and that
\* ticker's shares (0 if not held) as the earlier tickers of the pass left
\* them: the ledger does not change between the submission and the result.
C17_SnapshotIsCurrentLedger ==
    /\ \A i \in 1..Len(done) : i < idx
    /\ pc \in {"poll", "fetch"} =>
          /\ job.ticker = Tickers[idx]
          /\ Len(done) = idx - 1
          /\ job.sentCash = cash
          /\ job.sentPosition = SharesOf(positions, job.ticker)

\* the second ticker submitted with the cash left by the first ticker's buy
C17_AfterEarlierBuy ==
    /\ pc = "poll"
    /\ idx = 2
    /\ done = <<"applied">>
    /\ job.sentCash < Load(LastPass.file, DefaultCash).cash
    /\ job.sentCash = cash

\* the ticker just finished is held
FinishedHeld ==
    /\ pc \in {"ticker", "save"}
    /\ job.ticker # ""
    /\ Held(positions, job.ticker)

\* C18: after a ticker is finished (decision applied, no usable decision, or
\* skipped for lack of a job id), the cached value of its position, if it is
\* held, is shares * price for the price obtained in this pass, rounded to
\* two decimals (0 when the price fetch failed).
C18_ValueIsRoundedSharesTimesPrice ==
    FinishedHeld =>
        positions[job.ticker].value
            = Round2(positions[job.ticker].shares * price)

\* C18 as stated: the cached value equals shares * price (value is counted
\* in cents, price in mills).
C18_ValueIsSharesTimesPrice ==
    FinishedHeld =>
        positions[job.ticker].value * 10 = positions[job.ticker].shares * price

\* a held ticker skipped for lack of a job id after its price fetch failed
C18_SkippedWithFailedPrice ==
    /\ FinishedHeld
    /\ done[Len(done)] = "skipped"
    /\ price = 0
    /\ LastPass.file.positions[job.ticker].value > 0
    /\ positions[job.ticker].value = 0

\* ------------------------------------------------------------------
\* Claims about a pass that fails

\* C19: when a status request or the result request of a pass fails, the
\* process ends: the pass is not saved, the file stays as it was when the
\* pass started (as the last completed pass, or the start, left it), and no
\* further step, hence no further pass, is taken.
C19_AbortedPassIsNotSaved ==
    /\ [](failure \in {"poll", "fetch"} =>
             /\ pc = "crashed"
             /\ saves = Len(passes) - 1
             /\ file = LastPass.file)
    /\ [][pc # "crashed"]_vars

\* the second pass aborted at the second ticker's result, after the first
\* ticker's decision changed the ledger in memory
C19_SecondPassAborted ==
    /\ pc = "crashed"
    /\ failure = "fetch"
    /\ Len(passes) = 2
    /\ saves = 1
    /\ done = <<"applied">>
    /\ cash # file.cash

\* ------------------------------------------------------------------
\* Claims about progress

\* C20: when every job is eventually reported complete and no remote call
\* fails, every pass that starts processes all tickers and is saved, and the
\* next pass then fires (within the number of passes and the horizon of the
\* model); the poll loop has no cap: while a job is polled another "not
\* complete" answer is always possible, and polling saves nothing and starts
\* no pass.
C20_PassesCompleteAndRecur ==
    /\ \A k \in 1..MaxRuns :
          /\ (Len(passes) = k /\ pc = "ticker" /\ idx = 1) ~>
                (Len(passes) = k /\ pc = "save" /\ Len(done) = Len(Tickers))
          /\ (Len(passes) = k /\ pc = "save") ~> (saves = k)
          /\ (saves = k /\ k < env.passes /\ next_run <= env.horizon) ~>
                (Len(passes) = k + 1)
    /\ [](pc = "poll" => ENABLED PollPending)
    /\ [][pc = "poll" /\ pc' = "poll" =>
             saves' = saves /\ passes' = passes /\ file' = file]_vars

\* the second pass fired after the first was saved following a long poll
C20_SecondPassFired ==
    /\ Len(passes) = 2
    /\ saves = 1
    /\ pc = "ticker"
    /\ passes[2].at > passes[2].trigger + SleepSecs

====
